---- MODULE Spec2Model ----
(***************************************************************************)
(* Build orchestration (src/src/build.rs) and linter diagnostics           *)
(* (src/src/diagnostics) of texlab-swiftlatex.                             *)
(*                                                                         *)
(* SpecBuild: concurrent BuildManager::build / BuildManager::cancel tasks  *)
(* over the shared handles_by_token registry.  A build's Abortable future  *)
(* is modelled poll by poll: the abort flag is tested when a poll begins   *)
(* and again when the inner future returns Pending, never in between.      *)
(*                                                                         *)
(* SpecLock: the same with the registry mutex made explicit.               *)
(* SpecLint: the rate-limited linters and DiagnosticsManager::get.         *)
(* SpecStarve: two documents of one linter under an unbounded clock.       *)
(* SpecPublish: publication of the aggregate while the build log changes.  *)
(* SpecComplete: label completion (texlab_completion/src/latex/label.rs).  *)
(* SpecParse: the loop of lint over the lines of a tool's output.          *)
(* SpecExchange: lint and its tool at the two pipes, on a runtime thread.  *)
(* SpecConn: the reader and writer loops of accept_connection (main.rs).   *)
(***************************************************************************)
EXTENDS Integers, Sequences, FiniteSets, TLC

\* ---------------------------------------------------------------- bounds
NumBuilds == 2
MaxLines == 2
\* The clock at server start, in seconds since the epoch.
Epoch0 == 1000
\* u64 is modelled as a word of WordBits bits.
WordBits == 4

Builds == 1..NumBuilds

\* ------------------------------------------------------------ vocabulary
Success == "Success"
Error == "Error"
Failure == "Failure"
Cancelled == "Cancelled"
BuildStatus == {Success, Error, Failure, Cancelled}

\* ProgressToken::String(format!("texlab-build-{}", Uuid::new_v4()))
TokenOf(b) == [kind |-> "String", id |-> "texlab-build-" \o ToString(b)]

WildcardToken == [kind |-> "String", id |-> "texlab-build-*"]
\* A string token no build ever minted, and a numeric token.
StaleToken == [kind |-> "String", id |-> "texlab-build-0"]
NumberToken == [kind |-> "Number", id |-> "1"]

CancelTokens == {TokenOf(b) : b \in Builds} \cup {WildcardToken, StaleToken, NumberToken}

\* Client capabilities of a request: does the client declare
\* window.work_done_progress = Some(true)?
Capabilities == {"declared", "default"}

\* What a workspace lookup (find_parent, find) answers: no document, a document
\* whose uri has a local file path, or a document whose uri has none.
Lookups == {"none", "file", "remote"}

VARIABLES
    pc,                 \* position of each BuildManager::build call
    epc,                \* position of its BuildProvider::execute future
    polling,            \* the Abortable is inside a poll of the inner future
    aborted,            \* AbortHandle's shared flag, per build
    client_capabilities, \* what the client declared at initialize
    result,             \* the BuildResult status, "none" until determined
    proc,               \* the compiler process of each build
    client,             \* notifications the client received for each build, in order
    handles_by_token,   \* the registry: token -> abort handle
    hit,                \* history: where each build was when first aborted
    miss                \* history: cancel was called with a token that matched nothing

bvars == <<pc, epc, polling, aborted, client_capabilities, result, proc, client,
           handles_by_token, hit, miss>>

VARIABLES
    now,                \* SystemTime::now() in whole seconds since the epoch
    overflow_checks,    \* build profile: arithmetic overflow panics (debug) or wraps
    latex,              \* LatexDiagnosticsProvider (chktex)
    english,            \* EnglishDiagnosticsProvider (hunspell)
    bibtex,             \* BibtexDiagnosticsProvider: diagnostics by uri
    invocations,        \* history: the times at which each tool was invoked
    last_update         \* history: the most recent update call, its effect and what it inserted

lvars == <<now, overflow_checks, latex, english, bibtex, invocations, last_update>>

VARIABLES
    request,            \* the completion request being served
    items,              \* the completion items returned for it
    build_log,          \* what the build log of the open document reports
    published           \* the diagnostics last published for the open document

VARIABLES
    lock,               \* who holds the guard of the handles_by_token mutex
    cancelling          \* the token of the cancel call that holds the guard

VARIABLES
    pass,               \* the loop of lint over the lines of the tool's output
    exchange,           \* lint and its tool at the two pipes, and the runtime's threads
    conn                \* each accepted connection: its reader, its writer and their channel

cvars == <<request, items>>
pvars == <<build_log, published>>
kvars == <<lock, cancelling>>
nvars == <<pass, exchange, conn>>
xvars == <<cvars, pvars, kvars, nvars>>

vars == <<bvars, lvars, xvars>>

NoProc == [st |-> "none", out |-> 0, err |-> FALSE]

NoUri == [scheme |-> "none", path |-> "none"]

\* The linter state while the build specification runs, and the reverse.
IdleLint ==
    /\ now = Epoch0
    /\ overflow_checks = FALSE
    /\ latex = [diagnostics_by_uri |-> <<>>, last_lint_time |-> 0]
    /\ english = [diagnostics_by_uri |-> <<>>, last_lint_time |-> 0]
    /\ bibtex = <<>>
    /\ invocations = [tool \in {"chktex", "hunspell"} |-> <<>>]
    /\ last_update = [tool |-> "none", uri |-> NoUri, effect |-> "none", at |-> 0,
                    inserted |-> <<>>]

\* No completion request is being served and nothing was published.
IdleComplete ==
    /\ request = [served |-> FALSE]
    /\ items = <<>>

\* Mutex::new: nobody holds the guard.
Free == [by |-> "none", b |-> 0]
NoToken == [kind |-> "None", id |-> ""]

IdleLock ==
    /\ lock = Free
    /\ cancelling = NoToken

IdlePublish ==
    /\ build_log = "none"
    /\ published = [log |-> "none", diagnostics |-> <<>>]

\* No lint pass is parsing, no tool is running, no connection was accepted.
NoPass == [tool |-> "none", out |-> <<>>, stdout |-> <<>>, diagnostics |-> <<>>, st |-> "idle"]

NoExchange ==
    [st |-> "idle", text |-> 0, stdin |-> 0, stdin_open |-> FALSE, stdout |-> 0,
     owed |-> 0, tool |-> "none", workers |-> 1, on |-> {}, polls |-> 0]

NoConn == <<>>

Quiet ==
    /\ pass = NoPass
    /\ exchange = NoExchange
    /\ conn = NoConn

IdleBuild ==
    /\ pc = [b \in Builds |-> "idle"]
    /\ epc = [b \in Builds |-> "start"]
    /\ polling = [b \in Builds |-> FALSE]
    /\ aborted = [b \in Builds |-> FALSE]
    /\ client_capabilities = "default"
    /\ result = [b \in Builds |-> "none"]
    /\ proc = [b \in Builds |-> NoProc]
    /\ client = [b \in Builds |-> <<>>]
    /\ handles_by_token = <<>>
    /\ hit = [b \in Builds |-> "none"]
    /\ miss = FALSE

\* BuildManager::new
InitBuild ==
    /\ IdleLint
    /\ IdleComplete
    /\ IdlePublish
    /\ IdleLock
    /\ Quiet
    /\ pc = [b \in Builds |-> "idle"]
    /\ epc = [b \in Builds |-> "start"]
    /\ polling = [b \in Builds |-> FALSE]
    /\ aborted = [b \in Builds |-> FALSE]
    /\ client_capabilities \in Capabilities
    /\ result = [b \in Builds |-> "none"]
    /\ proc = [b \in Builds |-> NoProc]
    /\ client = [b \in Builds |-> <<>>]
    /\ handles_by_token = <<>>
    /\ hit = [b \in Builds |-> "none"]
    /\ miss = FALSE

\* ------------------------------------------------------------- helpers
has_work_done_progress_support(caps) == FALSE

Insert(map, k, v) == [x \in (DOMAIN map) \cup {k} |-> IF x = k THEN v ELSE map[x]]

Remove(map, k) == [x \in (DOMAIN map) \ {k} |-> map[x]]

\* match self.build(&path).await { Ok(true) | Ok(false) | Err(_) }
StatusOf(outcome) ==
    CASE outcome = "ok_true" -> Success
      [] outcome = "ok_false" -> Error
      [] OTHER -> Failure

\* Ok(process.await?.success())
WaitOutcome(code) ==
    CASE code = "zero" -> "ok_true"
      [] code = "nonzero" -> "ok_false"
      [] OTHER -> "err"

ProgressBegin(b) == [type |-> "begin", build |-> b, n |-> 0]
ProgressEnd(b) == [type |-> "end", build |-> b, n |-> 0]
LogMessage(b, n) == [type |-> "log", build |-> b, n |-> n]

\* The Abortable resolves with `status`: the match in BuildManager::build.
Settle(b, status) ==
    /\ pc' = [pc EXCEPT ![b] = "progress_end"]
    /\ polling' = [polling EXCEPT ![b] = FALSE]
    /\ result' = [result EXCEPT ![b] = status]

\* --------------------------------------------------- BuildManager::build
\* BuildProvider::new and AbortHandle::new_pair.
BuildNew(b) ==
    /\ pc[b] = "idle"
    /\ pc' = [pc EXCEPT ![b] = "lock_insert"]
    /\ UNCHANGED <<epc, polling, aborted, client_capabilities, result, proc, client, handles_by_token, hit, miss, lvars, xvars>>

\* handles_by_token.lock().await; insert(token, handle)
BuildInsert(b) ==
    /\ pc[b] = "lock_insert"
    /\ handles_by_token' = Insert(handles_by_token, TokenOf(b), b)
    /\ pc' = [pc EXCEPT ![b] = "abortable"]
    /\ UNCHANGED <<epc, polling, aborted, client_capabilities, result, proc, client, hit, miss, lvars, xvars>>

\* Faulty variant: the Err(Aborted) arm of the match reports Failure.
PollBegin_AbortedAsFailure(b) ==
    /\ pc[b] = "abortable"
    /\ ~polling[b]
    /\ IF aborted[b]
       THEN Settle(b, Failure)
       ELSE /\ polling' = [polling EXCEPT ![b] = TRUE]
            /\ UNCHANGED <<pc, result>>
    /\ UNCHANGED <<epc, aborted, client_capabilities, proc, client, handles_by_token, hit, miss, lvars, xvars>>

\* Faulty variant: the flag is not tested when a poll begins.
PollBegin_NoEntryCheck(b) ==
    /\ pc[b] = "abortable"
    /\ ~polling[b]
    /\ polling' = [polling EXCEPT ![b] = TRUE]
    /\ UNCHANGED <<pc, result>>
    /\ UNCHANGED <<epc, aborted, client_capabilities, proc, client, handles_by_token, hit, miss, lvars, xvars>>

\* Abortable::poll, entry: the flag is tested before the inner future runs.
PollBegin(b) ==
    /\ pc[b] = "abortable"
    /\ ~polling[b]
    /\ IF aborted[b]
       THEN Settle(b, Cancelled)
       ELSE /\ polling' = [polling EXCEPT ![b] = TRUE]
            /\ UNCHANGED <<pc, result>>
    /\ UNCHANGED <<epc, aborted, client_capabilities, proc, client, handles_by_token, hit, miss, lvars, xvars>>

\* Faulty variant: dropping the aborted future kills the compiler process.
PollPending_KillOnDrop(b) ==
    /\ pc[b] = "abortable"
    /\ polling[b]
    /\ epc[b] \in {"next_line", "log_message", "wait"}
    /\ IF aborted[b]
       THEN /\ Settle(b, Cancelled)
            /\ proc' = [proc EXCEPT ![b].st = "killed"]
       ELSE /\ polling' = [polling EXCEPT ![b] = FALSE]
            /\ UNCHANGED <<pc, result, proc>>
    /\ UNCHANGED <<epc, aborted, client_capabilities, client, handles_by_token, hit, miss, lvars, xvars>>

\* Abortable::poll, exit: the inner future returned Pending at an await; the
\* flag is tested again after the waker is registered.
PollPending(b) ==
    /\ pc[b] = "abortable"
    /\ polling[b]
    /\ epc[b] \in {"next_line", "log_message", "wait"}
    /\ IF aborted[b]
       THEN Settle(b, Cancelled)
       ELSE /\ polling' = [polling EXCEPT ![b] = FALSE]
            /\ UNCHANGED <<pc, result>>
    /\ UNCHANGED <<epc, aborted, client_capabilities, proc, client, handles_by_token, hit, miss, lvars, xvars>>

\* find_parent(..).or_else(|| find(..)): Option<Document>
ResolveRoot(parent, self) == IF parent # "none" THEN parent ELSE self

\* BuildProvider::execute up to the first await of BuildProvider::build:
\* root lookup, to_file_path, progress begin, spawn.
ExecStart(b) ==
    /\ pc[b] = "abortable"
    /\ polling[b]
    /\ epc[b] = "start"
    /\ \E parent \in Lookups, self \in Lookups :
          CASE ResolveRoot(parent, self) = "none" ->
                 \* .unwrap() on None: the task unwinds
                 /\ pc' = [pc EXCEPT ![b] = "panicked"]
                 /\ polling' = [polling EXCEPT ![b] = FALSE]
                 /\ UNCHANGED <<epc, result, proc, client>>
            [] ResolveRoot(parent, self) = "remote" ->
                 \* to_file_path() = Err(())
                 /\ Settle(b, Failure)
                 /\ proc' = [proc EXCEPT ![b].st = "no_path"]
                 /\ epc' = [epc EXCEPT ![b] = "done"]
                 /\ UNCHANGED client
            [] OTHER ->
                 /\ client' = IF has_work_done_progress_support(client_capabilities)
                              THEN [client EXCEPT ![b] = Append(@, ProgressBegin(b))]
                              ELSE client
                 /\ \E spawned \in BOOLEAN :
                       IF spawned
                       THEN /\ proc' = [proc EXCEPT ![b].st = "running"]
                            /\ epc' = [epc EXCEPT ![b] = "next_line"]
                            /\ UNCHANGED <<pc, polling, result>>
                       ELSE /\ proc' = [proc EXCEPT ![b].st = "spawn_failed"]
                            /\ epc' = [epc EXCEPT ![b] = "done"]
                            /\ Settle(b, StatusOf("err"))
    /\ UNCHANGED <<aborted, client_capabilities, handles_by_token, hit, miss, lvars, xvars>>

\* while let Some(Ok(line)) = output.next().await
ExecNextLine(b) ==
    /\ pc[b] = "abortable"
    /\ polling[b]
    /\ epc[b] = "next_line"
    /\ \E item \in {"line", "eof", "read_error"} :
          CASE item = "line" ->
                 /\ proc[b].out < MaxLines
                 /\ proc' = [proc EXCEPT ![b].out = @ + 1]
                 /\ epc' = [epc EXCEPT ![b] = "log_message"]
            [] item = "eof" ->
                 /\ epc' = [epc EXCEPT ![b] = "wait"]
                 /\ UNCHANGED proc
            [] OTHER ->
                 /\ proc' = [proc EXCEPT ![b].err = TRUE]
                 /\ epc' = [epc EXCEPT ![b] = "wait"]
    /\ UNCHANGED <<pc, polling, aborted, client_capabilities, result, client, handles_by_token, hit, miss, lvars, xvars>>

\* Faulty variant: the line is kept back instead of being sent.
ExecLogMessage_Buffered(b) ==
    /\ pc[b] = "abortable"
    /\ polling[b]
    /\ epc[b] = "log_message"
    /\ epc' = [epc EXCEPT ![b] = "next_line"]
    /\ UNCHANGED <<pc, polling, aborted, client_capabilities, result, proc, client, handles_by_token, hit, miss, lvars, xvars>>

\* Faulty variant: the line is forwarded by a task of its own, which outlives
\* the aborted execution.
ExecLogMessage_Detached(b) ==
    /\ epc[b] = "log_message"
    /\ client' = [client EXCEPT ![b] = Append(@, LogMessage(b, proc[b].out))]
    /\ epc' = [epc EXCEPT ![b] = "next_line"]
    /\ UNCHANGED <<pc, polling, aborted, client_capabilities, result, proc, handles_by_token, hit, miss, lvars, xvars>>

\* self.client.log_message(params).await
ExecLogMessage(b) ==
    /\ pc[b] = "abortable"
    /\ polling[b]
    /\ epc[b] = "log_message"
    /\ client' = [client EXCEPT ![b] = Append(@, LogMessage(b, proc[b].out))]
    /\ epc' = [epc EXCEPT ![b] = "next_line"]
    /\ UNCHANGED <<pc, polling, aborted, client_capabilities, result, proc, handles_by_token, hit, miss, lvars, xvars>>

\* Ok(process.await?.success()) and the status match of execute
ExecWait(b) ==
    /\ pc[b] = "abortable"
    /\ polling[b]
    /\ epc[b] = "wait"
    /\ \E code \in {"zero", "nonzero", "io_error"} :
          /\ proc' = [proc EXCEPT ![b].st = code]
          /\ Settle(b, StatusOf(WaitOutcome(code)))
    /\ epc' = [epc EXCEPT ![b] = "done"]
    /\ UNCHANGED <<aborted, client_capabilities, client, handles_by_token, hit, miss, lvars, xvars>>

\* Faulty variant: the progress-end is sent to every client.
BuildProgressEnd_Unconditional(b) ==
    /\ pc[b] = "progress_end"
    /\ client' = [client EXCEPT ![b] = Append(@, ProgressEnd(b))]
    /\ pc' = [pc EXCEPT ![b] = "lock_remove"]
    /\ UNCHANGED <<epc, polling, aborted, client_capabilities, result, proc, handles_by_token, hit, miss, lvars, xvars>>

\* if has_work_done_progress_support() { client.progress(Done).await }
BuildProgressEnd(b) ==
    /\ pc[b] = "progress_end"
    /\ client' = IF has_work_done_progress_support(client_capabilities)
                 THEN [client EXCEPT ![b] = Append(@, ProgressEnd(b))]
                 ELSE client
    /\ pc' = [pc EXCEPT ![b] = "lock_remove"]
    /\ UNCHANGED <<epc, polling, aborted, client_capabilities, result, proc, handles_by_token, hit, miss, lvars, xvars>>

\* Faulty variant: the abort flag is looked at again when the token is removed.
BuildRemove_RecheckFlag(b) ==
    /\ pc[b] = "lock_remove"
    /\ handles_by_token' = Remove(handles_by_token, TokenOf(b))
    /\ pc' = [pc EXCEPT ![b] = "returned"]
    /\ result' = [result EXCEPT ![b] = IF aborted[b] THEN Cancelled ELSE @]
    /\ UNCHANGED <<epc, polling, aborted, client_capabilities, proc, client, hit, miss, lvars, xvars>>

\* handles_by_token.lock().await; remove(&token); return result
BuildRemove(b) ==
    /\ pc[b] = "lock_remove"
    /\ handles_by_token' = Remove(handles_by_token, TokenOf(b))
    /\ pc' = [pc EXCEPT ![b] = "returned"]
    /\ UNCHANGED <<epc, polling, aborted, client_capabilities, result, proc, client, hit, miss, lvars, xvars>>

\* -------------------------------------------------- BuildManager::cancel
\* Faulty variant: the wildcard branch aborts one handle only.
CancelTargets_FirstOnly(token) ==
    IF token \in DOMAIN handles_by_token
    THEN {handles_by_token[token]}
    ELSE IF token.kind = "String" /\ token.id = "texlab-build-*" /\ DOMAIN handles_by_token # {}
         THEN {handles_by_token[CHOOSE t \in DOMAIN handles_by_token : TRUE]}
         ELSE {}

\* Faulty variant: the wildcard branch is taken for every token without an exact match.
CancelTargets_AnyMiss(token) ==
    IF token \in DOMAIN handles_by_token
    THEN {handles_by_token[token]}
    ELSE {handles_by_token[t] : t \in DOMAIN handles_by_token}

\* Faulty variant: an exact match aborts every registered handle.
CancelTargets_ExactSweeps(token) ==
    IF token \in DOMAIN handles_by_token \/ (token.kind = "String" /\ token.id = "texlab-build-*")
    THEN {handles_by_token[t] : t \in DOMAIN handles_by_token}
    ELSE {}

\* The handles cancel(token) calls abort() on.
CancelTargets(token) ==
    IF token \in DOMAIN handles_by_token
    THEN {handles_by_token[token]}
    ELSE IF token.kind = "String" /\ token.id = "texlab-build-*"
         THEN {handles_by_token[t] : t \in DOMAIN handles_by_token}
         ELSE {}

\* Where build b stands when abort() reaches its handle.
Standing(b) ==
    CASE pc[b] = "abortable" /\ ~polling[b] -> "suspended"
      [] pc[b] = "abortable" /\ polling[b] -> "polling"
      [] OTHER -> "settled"

\* History of the first abort() that reaches an unsettled build: which branch
\* of cancel sent it and where the build stood.
HitBy(token, b) ==
    IF hit[b] = "none" /\ b \in CancelTargets(token) /\ Standing(b) # "settled"
    THEN (IF token \in DOMAIN handles_by_token THEN "exact_" ELSE "sweep_") \o Standing(b)
    ELSE hit[b]

\* The body of cancel under the guard: get(&token), abort(), for_each(abort).
CancelAbort(token) ==
    /\ aborted' = [b \in Builds |-> aborted[b] \/ b \in CancelTargets(token)]
    /\ hit' = [b \in Builds |-> HitBy(token, b)]
    /\ miss' = (miss \/ (token \notin DOMAIN handles_by_token /\ token # WildcardToken))

Cancel(token) ==
    /\ CancelAbort(token)
    /\ UNCHANGED <<pc, epc, polling, client_capabilities, result, proc, client, handles_by_token, lvars, xvars>>

NextBuild ==
    \/ \E b \in Builds : BuildNew(b)
    \/ \E b \in Builds : BuildInsert(b)
    \/ \E b \in Builds : PollBegin(b)
    \/ \E b \in Builds : PollPending(b)
    \/ \E b \in Builds : ExecStart(b)
    \/ \E b \in Builds : ExecNextLine(b)
    \/ \E b \in Builds : ExecLogMessage(b)
    \/ \E b \in Builds : ExecWait(b)
    \/ \E b \in Builds : BuildProgressEnd(b)
    \/ \E b \in Builds : BuildRemove(b)
    \/ \E token \in CancelTokens : Cancel(token)

SpecBuild == InitBuild /\ [][NextBuild]_vars

\* ----------------------------------------------------- the registry lock
\* SpecLock: the same builds and cancels with the mutex of handles_by_token
\* made explicit: lock().await suspends the caller until the guard is free,
\* and the guard is dropped at the end of the block (build) or of the function
\* (cancel).

\* The tokens cancel is called with here: one build's own and the wildcard.
LockTokens == {TokenOf(1), WildcardToken}

HeldByBuild(b) == [by |-> "build", b |-> b]
HeldByCancel == [by |-> "cancel", b |-> 0]

\* let mut handles_by_token = self.handles_by_token.lock().await (first block)
LockInsert(b) ==
    /\ pc[b] = "lock_insert"
    /\ lock = Free
    /\ lock' = HeldByBuild(b)
    /\ pc' = [pc EXCEPT ![b] = "insert_held"]
    /\ UNCHANGED <<epc, polling, aborted, client_capabilities, result, proc, client, handles_by_token, hit, miss, cancelling, lvars, cvars, pvars, nvars>>

\* Faulty variant: the guard of the first block lives on into the execution.
InsertUnlock_GuardKept(b) ==
    /\ pc[b] = "insert_held"
    /\ handles_by_token' = Insert(handles_by_token, TokenOf(b), b)
    /\ pc' = [pc EXCEPT ![b] = "abortable"]
    /\ UNCHANGED <<epc, polling, aborted, client_capabilities, result, proc, client, hit, miss, lock, cancelling, lvars, cvars, pvars, nvars>>

\* handles_by_token.insert(token, handle); } -- the guard is dropped
InsertUnlock(b) ==
    /\ pc[b] = "insert_held"
    /\ handles_by_token' = Insert(handles_by_token, TokenOf(b), b)
    /\ pc' = [pc EXCEPT ![b] = "abortable"]
    /\ lock' = Free
    /\ UNCHANGED <<epc, polling, aborted, client_capabilities, result, proc, client, hit, miss, cancelling, lvars, cvars, pvars, nvars>>

\* let mut handles_by_token = self.handles_by_token.lock().await (second block)
LockRemove(b) ==
    /\ pc[b] = "lock_remove"
    /\ lock = Free
    /\ lock' = HeldByBuild(b)
    /\ pc' = [pc EXCEPT ![b] = "remove_held"]
    /\ UNCHANGED <<epc, polling, aborted, client_capabilities, result, proc, client, handles_by_token, hit, miss, cancelling, lvars, cvars, pvars, nvars>>

\* handles_by_token.remove(&token); } -- the guard is dropped; return result
RemoveUnlock(b) ==
    /\ pc[b] = "remove_held"
    /\ handles_by_token' = Remove(handles_by_token, TokenOf(b))
    /\ pc' = [pc EXCEPT ![b] = "returned"]
    /\ lock' = Free
    /\ UNCHANGED <<epc, polling, aborted, client_capabilities, result, proc, client, hit, miss, cancelling, lvars, cvars, pvars, nvars>>

\* cancel: let handles_by_token = self.handles_by_token.lock().await
CancelLock(token) ==
    /\ cancelling = NoToken
    /\ lock = Free
    /\ lock' = HeldByCancel
    /\ cancelling' = token
    /\ UNCHANGED <<bvars, lvars, cvars, pvars, nvars>>

\* cancel: the lookup and the abort signals; the guard is dropped on return
CancelUnlock ==
    /\ cancelling # NoToken
    /\ CancelAbort(cancelling)
    /\ lock' = Free
    /\ cancelling' = NoToken
    /\ UNCHANGED <<pc, epc, polling, client_capabilities, result, proc, client, handles_by_token, lvars, cvars, pvars, nvars>>

NextLock ==
    \/ \E b \in Builds : BuildNew(b)
    \/ \E b \in Builds : LockInsert(b)
    \/ \E b \in Builds : InsertUnlock(b)
    \/ \E b \in Builds : PollBegin(b)
    \/ \E b \in Builds : PollPending(b)
    \/ \E b \in Builds : ExecStart(b)
    \/ \E b \in Builds : ExecNextLine(b)
    \/ \E b \in Builds : ExecLogMessage(b)
    \/ \E b \in Builds : ExecWait(b)
    \/ \E b \in Builds : BuildProgressEnd(b)
    \/ \E b \in Builds : LockRemove(b)
    \/ \E b \in Builds : RemoveUnlock(b)
    \/ \E token \in LockTokens : CancelLock(token)
    \/ CancelUnlock

SpecLock == InitBuild /\ [][NextLock]_vars

\* ===================================================== diagnostics
\* SpecLint: update/get of the two rate-limited linters and the aggregate of
\* DiagnosticsManager, against a clock that only moves forward.

\* Seconds after Epoch0 at which the clock is observed.
Offsets == {0, 10, 11, 60, 61}

FileA == [scheme |-> "file", path |-> "/a.tex"]
FileB == [scheme |-> "file", path |-> "/b.tex"]
Untitled == [scheme |-> "untitled", path |-> "c"]
Uris == {FileA, FileB, Untitled}

\* u64 arithmetic.  A numeral of the tool's output is a natural number; the
\* numeral U64Mod stands for a digit string too large for u64.
U64Mod == 2 ^ WordBits

Panic == [tag |-> "Panic"]
Val(v) == [tag |-> "Val", v |-> v]

\* captures[i].parse::<u64>().unwrap()
ParseU64(numeral) == IF numeral < U64Mod THEN Val(numeral) ELSE Panic

\* x - 1 on u64
Sub1(x, checks) ==
    IF x >= 1 THEN Val(x - 1) ELSE IF checks THEN Panic ELSE Val(U64Mod - 1)

\* x + y on u64
Add(x, y, checks) ==
    IF x + y < U64Mod THEN Val(x + y) ELSE IF checks THEN Panic ELSE Val((x + y) % U64Mod)

\* Range::new_simple(start_line, start_character, end_line, end_character)
RangeSimple(sl, sc, el, ec) ==
    [start |-> [line |-> sl, character |-> sc], end |-> [line |-> el, character |-> ec]]

\* match kind { "Message" => Information, "Warning" => Warning, _ => Error }
ChktexSeverity(kind) ==
    CASE kind = "Message" -> "Information"
      [] kind = "Warning" -> "Warning"
      [] OTHER -> "Error"

\* A line of chktex output: whether LINE_REGEX matches it and, if so, its
\* six captures.
ChktexLine(l, c, d, kind, code, msg) ==
    [matches |-> TRUE, l |-> l, c |-> c, d |-> d, kind |-> kind, code |-> code, msg |-> msg]

NoMatch == [matches |-> FALSE]

\* The body of the for loop of latex.rs lint for one line: Panic, no
\* diagnostic, or one diagnostic.
ChktexDiagnostic(ln, checks) ==
    IF ~ln.matches THEN [tag |-> "Skip"]
    ELSE LET pl == ParseU64(ln.l)
             line == IF pl = Panic THEN Panic ELSE Sub1(pl.v, checks)
             pc_ == IF line = Panic THEN Panic ELSE ParseU64(ln.c)
             character == IF pc_ = Panic THEN Panic ELSE Sub1(pc_.v, checks)
             digit == IF character = Panic THEN Panic ELSE ParseU64(ln.d)
             endc == IF digit = Panic THEN Panic ELSE Add(character.v, digit.v, checks)
         IN IF endc = Panic THEN Panic
            ELSE Val([source |-> "chktex",
                      code |-> ln.code,
                      message |-> ln.msg,
                      severity |-> ChktexSeverity(ln.kind),
                      range |-> RangeSimple(line.v, character.v, line.v, endc.v)])

\* A line of hunspell output: its first character ("" for an empty line),
\* whether LINE_REGEX matches it and, if so, its four captures.
HunspellLine(first, word, l, c, suggestion) ==
    [first |-> first, matches |-> TRUE, word |-> word, l |-> l, c |-> c,
     suggestion |-> suggestion]

HunspellOther(first) == [first |-> first, matches |-> FALSE]

\* The body of the for loop of english.rs lint for one line.
HunspellDiagnostic(ln, checks) ==
    IF ln.first = "" THEN [tag |-> "Skip"]
    ELSE IF ln.first \notin {"&", "#"} THEN [tag |-> "Skip"]
    ELSE IF ~ln.matches THEN [tag |-> "Skip"]
    ELSE LET pl == ParseU64(ln.l)
             line == IF pl = Panic THEN Panic ELSE Sub1(pl.v, checks)
             character == IF line = Panic THEN Panic ELSE ParseU64(ln.c)
             digit == Len(ln.word)
             endc == IF character = Panic THEN Panic ELSE Add(character.v, digit, checks)
         IN IF endc = Panic THEN Panic
            ELSE Val([source |-> "Spell Checker",
                      code |-> "None",
                      message |-> <<"Maybe a spelling error, suggestion: ", ln.suggestion>>,
                      severity |-> "Information",
                      range |-> RangeSimple(line.v, character.v, line.v, endc.v)])

\* for line in stdout.lines() { .. diagnostics.push(..) }
RECURSIVE ParseLines(_, _, _, _)
ParseLines(tool, lines, checks, acc) ==
    IF lines = <<>> THEN Val(acc)
    ELSE LET r == IF tool = "chktex" THEN ChktexDiagnostic(Head(lines), checks)
                  ELSE HunspellDiagnostic(Head(lines), checks)
         IN CASE r = Panic -> Panic
              [] r.tag = "Skip" -> ParseLines(tool, Tail(lines), checks, acc)
              [] OTHER -> ParseLines(tool, Tail(lines), checks, Append(acc, r.v))

\* One run of the external tool, as lint sees it: spawn, write_all and
\* read_to_string succeed or fail, and stdout holds these lines.
Run(spawn, write, read, stdout) ==
    [spawn |-> spawn, write |-> write, read |-> read, stdout |-> stdout]

\* fn lint(text) -> Option<Vec<Diagnostic>>: [tag "None"], Val(vec) or Panic.
Lint(tool, run, checks) ==
    IF ~run.spawn \/ ~run.write \/ ~run.read THEN [tag |-> "None"]
    ELSE ParseLines(tool, run.stdout, checks, <<>>)

\* lint(text).unwrap_or_default()
UnwrapOrDefault(opt) == IF opt.tag = "None" THEN <<>> ELSE opt.v

\* The runs the tools make in this specification.
ChktexRuns ==
    { Run(FALSE, FALSE, FALSE, <<>>),
      Run(TRUE, FALSE, FALSE, <<>>),
      Run(TRUE, TRUE, FALSE, <<>>),
      Run(TRUE, TRUE, TRUE, <<NoMatch, ChktexLine(5, 10, 3, "Warning", "12", "m")>>),
      Run(TRUE, TRUE, TRUE, <<ChktexLine(0, 1, 1, "Error", "1", "m")>>),
      Run(TRUE, TRUE, TRUE, <<ChktexLine(U64Mod, 1, 1, "Message", "1", "m")>>) }

HunspellRuns ==
    { Run(FALSE, FALSE, FALSE, <<>>),
      Run(TRUE, FALSE, FALSE, <<>>),
      Run(TRUE, TRUE, FALSE, <<>>),
      Run(TRUE, TRUE, TRUE, <<HunspellOther("*"), HunspellLine("&", "hte", 1, 3, "the")>>),
      Run(TRUE, TRUE, TRUE, <<HunspellLine("#", "x", 0, 1, "y")>>),
      Run(TRUE, TRUE, TRUE, <<HunspellLine("&", "x", 1, U64Mod, "y")>>) }

Tools == {"chktex", "hunspell"}

\* What lint answers over these runs, per tool and build profile.
ChktexChecked == {Lint("chktex", run, TRUE) : run \in ChktexRuns}
ChktexWrapping == {Lint("chktex", run, FALSE) : run \in ChktexRuns}
HunspellChecked == {Lint("hunspell", run, TRUE) : run \in HunspellRuns}
HunspellWrapping == {Lint("hunspell", run, FALSE) : run \in HunspellRuns}

\* if current_timestamp > self.last_lint_time + 60 / + 10
LatexInterval == 60
EnglishInterval == 10
Interval(tool) == IF tool = "chktex" THEN LatexInterval ELSE EnglishInterval

\* Faulty variant: the comparison forgets the interval.
Due_NoInterval(provider, tool, current_timestamp) ==
    current_timestamp > provider.last_lint_time

Due(provider, tool, current_timestamp) ==
    current_timestamp > provider.last_lint_time + Interval(tool)

\* Faulty variant: get answers with the first entry of the cache.
ProviderGet_AnyEntry(provider, uri) ==
    IF DOMAIN provider.diagnostics_by_uri # {}
    THEN provider.diagnostics_by_uri[CHOOSE u \in DOMAIN provider.diagnostics_by_uri : TRUE]
    ELSE <<>>

\* LatexDiagnosticsProvider::get / EnglishDiagnosticsProvider::get
ProviderGet(provider, uri) ==
    IF uri \in DOMAIN provider.diagnostics_by_uri
    THEN provider.diagnostics_by_uri[uri]
    ELSE <<>>

\* BibtexDiagnosticsProvider::get
BibtexGet(uri) == IF uri \in DOMAIN bibtex THEN bibtex[uri] ELSE <<>>

\* DiagnosticsManager::get
ManagerGet(uri) == ProviderGet(latex, uri) \o BibtexGet(uri)

\* Faulty variant: update without the scheme test.
UpdateEffect_NoSchemeTest(provider, tool, uri, r) ==
    IF ~Due(provider, tool, now) THEN "throttled"
    ELSE CASE r = Panic -> "panicked"
           [] r.tag = "None" -> "failed"
           [] OTHER -> "stored"

\* Faulty variant: the throttle is kept per document.
UpdateEffect_PerDocument(provider, tool, uri, r) ==
    IF uri.scheme # "file" THEN "nonlocal"
    ELSE IF uri \in DOMAIN provider.diagnostics_by_uri /\ ~Due(provider, tool, now)
         THEN "throttled"
    ELSE CASE r = Panic -> "panicked"
           [] r.tag = "None" -> "failed"
           [] OTHER -> "stored"

\* How update(uri, text) ends at time `now` when lint answers r: the early
\* return for a non-file uri, the throttled return, the panic raised inside
\* lint, or the insert of lint's diagnostics (of none, if lint failed).
UpdateEffect(provider, tool, uri, r) ==
    IF uri.scheme # "file" THEN "nonlocal"
    ELSE IF ~Due(provider, tool, now) THEN "throttled"
    ELSE CASE r = Panic -> "panicked"
           [] r.tag = "None" -> "failed"
           [] OTHER -> "stored"

\* Faulty variant: a throttled call drops the document's entry.
Updated_ThrottledClears(provider, tool, uri, r) ==
    LET effect == UpdateEffect(provider, tool, uri, r)
    IN CASE effect = "nonlocal" -> provider
         [] effect = "throttled" ->
              [provider EXCEPT !.diagnostics_by_uri = Remove(@, uri)]
         [] effect = "panicked" -> [provider EXCEPT !.last_lint_time = now]
         [] OTHER ->
              [diagnostics_by_uri |->
                   Insert(provider.diagnostics_by_uri, uri, UnwrapOrDefault(r)),
               last_lint_time |-> now]

\* The provider after the call.
Updated(provider, tool, uri, r) ==
    LET effect == UpdateEffect(provider, tool, uri, r)
    IN CASE effect \in {"nonlocal", "throttled"} -> provider
         [] effect = "panicked" -> [provider EXCEPT !.last_lint_time = now]
         [] OTHER ->
              [diagnostics_by_uri |->
                   Insert(provider.diagnostics_by_uri, uri, UnwrapOrDefault(r)),
               last_lint_time |-> now]

Recorded(provider, tool, uri, r) ==
    LET effect == UpdateEffect(provider, tool, uri, r)
    IN /\ last_update' = [tool |-> tool, uri |-> uri, effect |-> effect, at |-> now,
                          inserted |-> IF effect \in {"stored", "failed"}
                                       THEN UnwrapOrDefault(r) ELSE <<>>]
       /\ invocations' = IF effect \in {"nonlocal", "throttled"}
                         THEN invocations
                         ELSE [invocations EXCEPT ![tool] = Append(@, now)]

\* Faulty variant: the two linters share one timestamp.
LatexUpdate_SharedTimestamp(uri) ==
    /\ \E r \in (IF overflow_checks THEN ChktexChecked ELSE ChktexWrapping) :
          /\ latex' = Updated(latex, "chktex", uri, r)
          /\ english' = [english EXCEPT !.last_lint_time =
                             Updated(latex, "chktex", uri, r).last_lint_time]
          /\ Recorded(latex, "chktex", uri, r)
    /\ UNCHANGED <<now, overflow_checks, bibtex, bvars, xvars>>

\* LatexDiagnosticsProvider::update(uri, text); the text reaches only the
\* tool's standard input, and r is what lint answers for the tool's run.
LatexUpdate(uri) ==
    /\ \E r \in (IF overflow_checks THEN ChktexChecked ELSE ChktexWrapping) :
          /\ latex' = Updated(latex, "chktex", uri, r)
          /\ Recorded(latex, "chktex", uri, r)
    /\ UNCHANGED <<now, overflow_checks, english, bibtex, bvars, xvars>>

\* EnglishDiagnosticsProvider::update(uri, text)
EnglishUpdate(uri) ==
    /\ \E r \in (IF overflow_checks THEN HunspellChecked ELSE HunspellWrapping) :
          /\ english' = Updated(english, "hunspell", uri, r)
          /\ Recorded(english, "hunspell", uri, r)
    /\ UNCHANGED <<now, overflow_checks, latex, bibtex, bvars, xvars>>

BibtexDiag ==
    [source |-> "bibtex", code |-> "None", message |-> "m", severity |-> "Error",
     range |-> RangeSimple(0, 0, 0, 1)]

\* BibtexDiagnosticsProvider::update
BibtexUpdate(uri) ==
    /\ bibtex' = Insert(bibtex, uri, <<BibtexDiag>>)
    /\ UNCHANGED <<now, overflow_checks, latex, english, invocations, last_update, bvars, xvars>>

\* The wall clock advances.
Tick ==
    /\ \E o \in Offsets : Epoch0 + o > now /\ now' = Epoch0 + o
    /\ UNCHANGED <<overflow_checks, latex, english, bibtex, invocations, last_update, bvars, xvars>>

\* DiagnosticsManager::default, in either build profile
InitLint ==
    /\ IdleBuild
    /\ IdleComplete
    /\ IdlePublish
    /\ IdleLock
    /\ Quiet
    /\ now = Epoch0
    /\ overflow_checks \in BOOLEAN
    /\ latex = [diagnostics_by_uri |-> <<>>, last_lint_time |-> 0]
    /\ english = [diagnostics_by_uri |-> <<>>, last_lint_time |-> 0]
    /\ bibtex = <<>>
    /\ invocations = [tool \in Tools |-> <<>>]
    /\ last_update = [tool |-> "none", uri |-> NoUri, effect |-> "none", at |-> 0,
                    inserted |-> <<>>]

NextLint ==
    \/ \E uri \in Uris : LatexUpdate(uri)
    \/ \E uri \in Uris : EnglishUpdate(uri)
    \/ \E uri \in {FileA} : BibtexUpdate(uri)
    \/ Tick

SpecLint == InitLint /\ [][NextLint]_vars

\* ======================================================== starvation
\* SpecStarve: two documents of the style linter are updated again and again
\* while time passes without bound.  Time is kept relative to the present:
\* `now` stays the reference point and a passing second moves the linter's
\* timestamp one second into the past, which leaves every value of
\* now - last_lint_time, the only use update makes of the clock, as the
\* absolute clock would.  A timestamp older than the interval stays where it
\* is: the throttle is open and remains open until the next invocation.

\* The seconds that pass between two observations of the clock.
Steps == {1, LatexInterval}

\* last_lint_time as seen k seconds later.
Aged(last_lint_time, k, interval) ==
    IF now - last_lint_time > interval THEN last_lint_time
    ELSE IF now - (last_lint_time - k) > interval THEN now - interval - 1
    ELSE last_lint_time - k

\* SystemTime::now() moves on by k seconds; the history of invocation times
\* starts afresh.
Elapse(k) ==
    /\ latex' = [latex EXCEPT !.last_lint_time = Aged(@, k, LatexInterval)]
    /\ invocations' = [tool \in Tools |-> <<>>]
    /\ UNCHANGED <<now, overflow_checks, english, bibtex, last_update, bvars, xvars>>

InitStarve ==
    /\ IdleBuild
    /\ IdleComplete
    /\ IdlePublish
    /\ IdleLock
    /\ Quiet
    /\ now = Epoch0
    /\ overflow_checks \in BOOLEAN
    /\ latex = [diagnostics_by_uri |-> <<>>, last_lint_time |-> 0]
    /\ english = [diagnostics_by_uri |-> <<>>, last_lint_time |-> 0]
    /\ bibtex = <<>>
    /\ invocations = [tool \in Tools |-> <<>>]
    /\ last_update = [tool |-> "none", uri |-> NoUri, effect |-> "none", at |-> 0,
                      inserted |-> <<>>]

NextStarve ==
    \/ LatexUpdate(FileA)
    \/ LatexUpdate(FileB)
    \/ \E k \in Steps : Elapse(k)

\* Both documents keep receiving update calls and time keeps passing.
SpecStarve ==
    /\ InitStarve
    /\ [][NextStarve]_vars
    /\ WF_vars(LatexUpdate(FileA))
    /\ WF_vars(LatexUpdate(FileB))
    /\ WF_vars(\E k \in Steps : Elapse(k))

\* ====================================================== publication
\* SpecPublish: the server publishes the aggregate of the open document each
\* time it processes an action, while the build log on disk changes.

\* foo.log is written: it reports one error, or it is emptied.
LogContents == {"error", "empty"}

WriteLog(content) ==
    /\ build_log' = content
    /\ UNCHANGED <<published, cvars, kvars, lvars, bvars, nvars>>

\* The diagnostic a build log with an undefined control sequence stands for.
BuildLogDiag ==
    [source |-> "latex", code |-> "None", message |-> "Undefined control sequence.",
     severity |-> "Error", range |-> RangeSimple(0, 0, 0, 0)]

\* publish-diagnostics(document, DiagnosticsManager::get(document)), sent when
\* the server processes an action (open, execute).
PublishDiagnostics(uri) ==
    /\ published' = [log |-> build_log, diagnostics |-> ManagerGet(uri)]
    /\ UNCHANGED <<build_log, cvars, kvars, lvars, bvars, nvars>>

InitPublish ==
    /\ IdleBuild
    /\ IdleComplete
    /\ IdlePublish
    /\ IdleLock
    /\ Quiet
    /\ now = Epoch0
    /\ overflow_checks \in BOOLEAN
    /\ latex = [diagnostics_by_uri |-> <<>>, last_lint_time |-> 0]
    /\ english = [diagnostics_by_uri |-> <<>>, last_lint_time |-> 0]
    /\ bibtex = <<>>
    /\ invocations = [tool \in Tools |-> <<>>]
    /\ last_update = [tool |-> "none", uri |-> NoUri, effect |-> "none", at |-> 0,
                    inserted |-> <<>>]

NextPublish ==
    \/ \E content \in LogContents : WriteLog(content)
    \/ PublishDiagnostics(FileA)
    \/ LatexUpdate(FileA)
    \/ BibtexUpdate(FileA)
    \/ Tick

SpecPublish == InitPublish /\ [][NextPublish]_vars

\* ======================================================= completion
\* SpecComplete: LatexLabelCompletionProvider::execute applied to a request
\* whose cursor stands in the argument of a command, over the labels and
\* environments of the related documents.

\* Documents of one request.
MaxDocs == 2

Position(line, character) == [line |-> line, character |-> character]

\* Ord on Position: by line, then by character.
Less(p, q) == p.line < q.line \/ (p.line = q.line /\ p.character < q.character)

\* Range::contains_exclusive
contains_exclusive(range, pos) == Less(range.start, pos) /\ Less(pos, range.end)

\* LANGUAGE_DATA.label_commands: name, argument index and kind.
LabelCommands ==
    { [name |-> "\\label", index |-> 0, kind |-> "Definition", source |-> "None"],
      [name |-> "\\ref", index |-> 0, kind |-> "Reference", source |-> "Everything"],
      [name |-> "\\eqref", index |-> 0, kind |-> "Reference", source |-> "Math"] }

\* A label command of a document: its kind, its names and where it starts.
Label(kind, names, start) == [kind |-> kind, names |-> names, start |-> start]

\* An environment: whether its \begin names a math environment, and its range
\* from the start of \begin to the end of \end.
Environment(is_math, start, end) ==
    [is_math |-> is_math, range |-> [start |-> start, end |-> end]]

Document(tree, labels, environments) ==
    [tree |-> tree, labels |-> labels, environments |-> environments]

\* \label{foo}\label{bar}\ref{baz}
Baz ==
    Document("Latex",
             << Label("Definition", <<"foo">>, Position(0, 0)),
                Label("Definition", <<"bar">>, Position(0, 11)),
                Label("Reference", <<"baz">>, Position(0, 22)) >>,
             <<>>)

\* \begin{align}\label{foo}\end{align}\label{bar}
Align ==
    Document("Latex",
             << Label("Definition", <<"foo">>, Position(0, 13)),
                Label("Definition", <<"bar">>, Position(0, 35)) >>,
             << Environment(TRUE, Position(0, 0), Position(0, 35)) >>)

\* \begin{itemize}\item\label{it}\end{itemize}
Itemize ==
    Document("Latex",
             << Label("Definition", <<"it">>, Position(0, 20)) >>,
             << Environment(FALSE, Position(0, 0), Position(0, 42)) >>)

\* A math environment over three lines holding a label with two names, and a
\* reference after it.
Multi ==
    Document("Latex",
             << Label("Definition", <<"a", "b">>, Position(1, 0)),
                Label("Reference", <<"a">>, Position(3, 0)) >>,
             << Environment(TRUE, Position(0, 5), Position(2, 14)) >>)

\* A BibTeX document: its tree is not SyntaxTree::Latex.
Bib == Document("Bibtex", <<>>, <<>>)

Documents == {Baz, Align, Itemize, Multi, Bib}

\* The commands in whose argument the cursor may stand; "\\cite" is no label
\* command.
Commands == {"\\label", "\\ref", "\\eqref", "\\cite"}

\* context.range: the range of the word under the cursor.
ContextRange == [start |-> Position(1, 5), end |-> Position(1, 5)]

DocumentSeqs == UNION {[1..n -> Documents] : n \in 0..MaxDocs}

Requests ==
    { [served |-> FALSE, command |-> c, related_documents |-> ds] :
        c \in Commands, ds \in DocumentSeqs }

\* factory::label(request, text, text_edit, outline_context)
FactoryLabel(name, range) ==
    [label |-> name, data |-> "Label", text_edit |-> [range |-> range, new_text |-> name]]

\* find_source: the source of the reference command of the context
find_source(command) ==
    (CHOOSE cmd \in LabelCommands : cmd.name = command /\ cmd.index = 0).source

\* Faulty variant: the environments are not filtered by is_math.
is_included_AnyEnvironment(tree, label, source) ==
    CASE source = "Everything" -> TRUE
      [] OTHER -> \E i \in DOMAIN tree.environments :
                      contains_exclusive(tree.environments[i].range, label.start)

is_included(tree, label, source) ==
    CASE source = "Everything" -> TRUE
      [] OTHER -> \E i \in DOMAIN tree.environments :
                      /\ tree.environments[i].is_math
                      /\ contains_exclusive(tree.environments[i].range, label.start)

\* Faulty variant: labels of every kind pass.
IsDefinition_AnyKind(label) == TRUE

\* .filter(|label| label.kind == LatexLabelKind::Definition)
IsDefinition(label) == label.kind = "Definition"

\* for name in label.names() { items.push(factory::label(..)) }
RECURSIVE PushNames(_, _, _)
PushNames(acc, names, range) ==
    IF names = <<>> THEN acc
    ELSE PushNames(Append(acc, FactoryLabel(Head(names), range)), Tail(names), range)

\* for label in tree.structure.labels.iter().filter(..).filter(..)
RECURSIVE PushLabels(_, _, _, _, _)
PushLabels(acc, tree, labels, source, range) ==
    IF labels = <<>> THEN acc
    ELSE LET label == Head(labels)
             next == IF IsDefinition(label) /\ is_included(tree, label, source)
                     THEN PushNames(acc, label.names, range)
                     ELSE acc
         IN PushLabels(next, tree, Tail(labels), source, range)

\* for document in request.related_documents()
RECURSIVE PushDocuments(_, _, _, _)
PushDocuments(acc, documents, source, range) ==
    IF documents = <<>> THEN acc
    ELSE LET document == Head(documents)
             next == IF document.tree = "Latex"
                     THEN PushLabels(acc, document, document.labels, source, range)
                     ELSE acc
         IN PushDocuments(next, Tail(documents), source, range)

\* combinators::argument(request, parameters, closure): the closure runs when
\* the cursor stands in the argument of one of the parameters' commands.
Execute(req) ==
    LET parameters == {cmd \in LabelCommands : cmd.kind = "Reference"}
    IN IF req.command \in {cmd.name : cmd \in parameters}
       THEN PushDocuments(<<>>, req.related_documents, find_source(req.command), ContextRange)
       ELSE <<>>

\* The server answers the completion request.
Complete ==
    /\ ~request.served
    /\ items' = Execute(request)
    /\ request' = [request EXCEPT !.served = TRUE]
    /\ UNCHANGED <<pvars, kvars, lvars, bvars, nvars>>

InitComplete ==
    /\ IdleBuild
    /\ IdleLint
    /\ IdlePublish
    /\ IdleLock
    /\ Quiet
    /\ request \in Requests
    /\ items = <<>>

NextComplete == Complete

SpecComplete == InitComplete /\ [][NextComplete]_vars

\* ========================================================= the parse loop
\* SpecParse: the for loop of lint over the lines the tool printed, one line
\* per step, for both tools and both build profiles.

\* Lines of one tool's output in this specification.
MaxOut == 2

\* Lines chktex may print: one the grammar does not match, and matching lines
\* whose line or column numeral is 0.
ChktexLines ==
    { NoMatch,
      ChktexLine(5, 10, 3, "Warning", "12", "m"),
      ChktexLine(0, 1, 1, "Error", "1", "m"),
      ChktexLine(1, 0, 1, "Message", "1", "m") }

\* Lines hunspell may print: the empty line, lines starting with `*` or `@`,
\* a `&` line the grammar does not match, and matching lines.
HunspellLines ==
    { HunspellOther(""),
      HunspellOther("*"),
      HunspellOther("@"),
      HunspellOther("&"),
      HunspellLine("*", "hte", 1, 3, "the"),
      HunspellLine("&", "hte", 1, 3, "the"),
      HunspellLine("#", "x", 0, 1, "y") }

\* stdout.lines()
Outputs(tool) ==
    UNION {[1..n -> IF tool = "chktex" THEN ChktexLines ELSE HunspellLines] : n \in 0..MaxOut}

\* Faulty variant: the loop ends at the first line that yields no diagnostic.
ParseLine_StopAtSkipped ==
    /\ pass.st = "looping"
    /\ pass.stdout # <<>>
    /\ LET r == IF pass.tool = "chktex"
                THEN ChktexDiagnostic(Head(pass.stdout), overflow_checks)
                ELSE HunspellDiagnostic(Head(pass.stdout), overflow_checks)
       IN pass' = CASE r = Panic -> [pass EXCEPT !.st = "panicked"]
                    [] r.tag = "Skip" -> [pass EXCEPT !.stdout = <<>>]
                    [] OTHER -> [pass EXCEPT !.stdout = Tail(@),
                                             !.diagnostics = Append(@, r.v)]
    /\ UNCHANGED <<bvars, lvars, cvars, pvars, kvars, exchange, conn>>

\* for line in stdout.lines() { .. }: the body runs on the next line
ParseLine ==
    /\ pass.st = "looping"
    /\ pass.stdout # <<>>
    /\ LET r == IF pass.tool = "chktex"
                THEN ChktexDiagnostic(Head(pass.stdout), overflow_checks)
                ELSE HunspellDiagnostic(Head(pass.stdout), overflow_checks)
       IN pass' = CASE r = Panic -> [pass EXCEPT !.st = "panicked"]
                    [] r.tag = "Skip" -> [pass EXCEPT !.stdout = Tail(@)]
                    [] OTHER -> [pass EXCEPT !.stdout = Tail(@),
                                             !.diagnostics = Append(@, r.v)]
    /\ UNCHANGED <<bvars, lvars, cvars, pvars, kvars, exchange, conn>>

\* Some(diagnostics)
ParseEnd ==
    /\ pass.st = "looping"
    /\ pass.stdout = <<>>
    /\ pass' = [pass EXCEPT !.st = "returned"]
    /\ UNCHANGED <<bvars, lvars, cvars, pvars, kvars, exchange, conn>>

\* read_to_string has filled stdout; diagnostics = Vec::new()
InitParse ==
    /\ IdleBuild
    /\ IdleComplete
    /\ IdlePublish
    /\ IdleLock
    /\ now = Epoch0
    /\ overflow_checks \in BOOLEAN
    /\ latex = [diagnostics_by_uri |-> <<>>, last_lint_time |-> 0]
    /\ english = [diagnostics_by_uri |-> <<>>, last_lint_time |-> 0]
    /\ bibtex = <<>>
    /\ invocations = [tool \in Tools |-> <<>>]
    /\ last_update = [tool |-> "none", uri |-> NoUri, effect |-> "none", at |-> 0,
                      inserted |-> <<>>]
    /\ \E tool \in Tools : \E out \in Outputs(tool) :
          pass = [tool |-> tool, out |-> out, stdout |-> out, diagnostics |-> <<>>,
                  st |-> "looping"]
    /\ exchange = NoExchange
    /\ conn = NoConn

NextParse ==
    \/ ParseLine
    \/ ParseEnd

SpecParse == InitParse /\ [][NextParse]_vars

\* ==================================================== the tool's pipes
\* SpecExchange: lint and the tool it spawned, joined by the pipe to the
\* tool's standard input and the pipe from its standard output, each holding
\* at most PipeCap blocks.  A write to a full pipe and a read from an empty
\* one block.  lint is synchronous: from spawn to the end of read_to_string it
\* keeps the runtime thread of the task that called update.  The tool is a
\* filter: it reads a block, prints what it has to say about it, and exits at
\* the end of its input.

\* Capacity of a pipe, size of a document and output per block of input, in
\* blocks; threads of the runtime; polls the other task asks for.
PipeCap == 1
MaxText == 3
MaxEcho == 2
MaxWorkers == 2
MaxPolls == 2

\* The tasks of the runtime: the one whose request runs the linter, and an
\* unrelated one (a build).
Tasks == {"lint", "build"}

\* The runtime polls a ready task on a free thread.
TaskPoll(t) ==
    /\ t \notin exchange.on
    /\ Cardinality(exchange.on) < exchange.workers
    /\ t = "lint" => exchange.st = "idle"
    /\ t = "build" => exchange.polls < MaxPolls
    /\ exchange' = [exchange EXCEPT !.on = @ \cup {t}]
    /\ UNCHANGED <<bvars, lvars, cvars, pvars, kvars, pass, conn>>

\* The poll returns and the thread is free again; update has returned by then.
TaskYield(t) ==
    /\ t \in exchange.on
    /\ t = "lint" => exchange.st = "returned"
    /\ exchange' = [exchange EXCEPT !.on = @ \ {t},
                                    !.polls = IF t = "build" THEN @ + 1 ELSE @]
    /\ UNCHANGED <<bvars, lvars, cvars, pvars, kvars, pass, conn>>

\* update calls lint: Command::new(..).stdin(piped).stdout(piped).spawn().ok()?
LintSpawn ==
    /\ "lint" \in exchange.on
    /\ exchange.st = "idle"
    /\ \E spawned \in BOOLEAN :
          exchange' = IF spawned
                      THEN [exchange EXCEPT !.st = "writing", !.tool = "running",
                                            !.stdin_open = TRUE]
                      ELSE [exchange EXCEPT !.st = "returned"]
    /\ UNCHANGED <<bvars, lvars, cvars, pvars, kvars, pass, conn>>

\* write_all(text.as_bytes()): the next block goes into the pipe
LintWrite ==
    /\ exchange.st = "writing"
    /\ exchange.text > 0
    /\ exchange.stdin < PipeCap
    /\ exchange' = [exchange EXCEPT !.text = @ - 1, !.stdin = @ + 1]
    /\ UNCHANGED <<bvars, lvars, cvars, pvars, kvars, pass, conn>>

\* write_all has returned Ok; the ChildStdin taken for it is dropped
LintClose ==
    /\ exchange.st = "writing"
    /\ exchange.text = 0
    /\ exchange' = [exchange EXCEPT !.st = "reading", !.stdin_open = FALSE]
    /\ UNCHANGED <<bvars, lvars, cvars, pvars, kvars, pass, conn>>

\* read_to_string(&mut stdout): the next block comes out of the pipe
LintRead ==
    /\ exchange.st = "reading"
    /\ exchange.stdout > 0
    /\ exchange' = [exchange EXCEPT !.stdout = @ - 1]
    /\ UNCHANGED <<bvars, lvars, cvars, pvars, kvars, pass, conn>>

\* read_to_string sees the end of the stream; lint parses and returns
LintEof ==
    /\ exchange.st = "reading"
    /\ exchange.stdout = 0
    /\ exchange.tool = "exited"
    /\ exchange' = [exchange EXCEPT !.st = "returned"]
    /\ UNCHANGED <<bvars, lvars, cvars, pvars, kvars, pass, conn>>

\* The tool reads a block of its input and owes some output for it.
ToolRead ==
    /\ exchange.tool = "running"
    /\ exchange.owed = 0
    /\ exchange.stdin > 0
    /\ \E echo \in 0..MaxEcho :
          exchange' = [exchange EXCEPT !.stdin = @ - 1, !.owed = echo]
    /\ UNCHANGED <<bvars, lvars, cvars, pvars, kvars, pass, conn>>

\* The tool prints a block.
ToolWrite ==
    /\ exchange.tool = "running"
    /\ exchange.owed > 0
    /\ exchange.stdout < PipeCap
    /\ exchange' = [exchange EXCEPT !.stdout = @ + 1, !.owed = @ - 1]
    /\ UNCHANGED <<bvars, lvars, cvars, pvars, kvars, pass, conn>>

\* The tool sees the end of its input and exits.
ToolExit ==
    /\ exchange.tool = "running"
    /\ exchange.owed = 0
    /\ exchange.stdin = 0
    /\ ~exchange.stdin_open
    /\ exchange' = [exchange EXCEPT !.tool = "exited"]
    /\ UNCHANGED <<bvars, lvars, cvars, pvars, kvars, pass, conn>>

\* A non-throttled update is about to call lint(text).
InitExchange ==
    /\ IdleBuild
    /\ IdleLint
    /\ IdleComplete
    /\ IdlePublish
    /\ IdleLock
    /\ pass = NoPass
    /\ \E text \in 0..MaxText, workers \in 1..MaxWorkers :
          exchange = [NoExchange EXCEPT !.text = text, !.workers = workers]
    /\ conn = NoConn

NextExchange ==
    \/ \E t \in Tasks : TaskPoll(t)
    \/ \E t \in Tasks : TaskYield(t)
    \/ LintSpawn
    \/ LintWrite
    \/ LintClose
    \/ LintRead
    \/ LintEof
    \/ ToolRead
    \/ ToolWrite
    \/ ToolExit

SpecExchange == InitExchange /\ [][NextExchange]_vars

\* ====================================================== connections
\* SpecConn: accept_connection (src/src/main.rs).  Each connection joins a
\* writer loop, which takes messages from the channel and writes them to the
\* socket, and a reader loop, which reads messages from the socket, lets the
\* handler answer them through the channel and sends "kill" at the end.  The
\* channel has no buffer: a send is complete once the receiver has taken the
\* message or is gone, and fails at once if the receiver is already gone.

\* Connections accepted, and messages a client sends on one.
NumConns == 2
MaxMsgs == 2

\* listener.accept().await; tokio::spawn(accept_connection(socket, addr))
Accept ==
    /\ Len(conn) < NumConns
    /\ \E input \in 0..MaxMsgs :
          conn' = Append(conn, [task |-> "joined", reader |-> "next", writer |-> "recv",
                                chan |-> <<>>, rx |-> TRUE, input |-> input,
                                kill_sent |-> FALSE])
    /\ UNCHANGED <<bvars, lvars, cvars, pvars, kvars, pass, exchange>>

\* while let Some(json) = stdin.next().await { match &json { Ok | Err => break } }
ReaderNext(c) ==
    /\ c \in DOMAIN conn
    /\ conn[c].task = "joined"
    /\ conn[c].reader = "next"
    /\ \E item \in {"message", "error", "end"} :
          IF item = "message"
          THEN /\ conn[c].input > 0
               /\ conn' = [conn EXCEPT ![c].reader = "handling", ![c].input = @ - 1]
          ELSE conn' = [conn EXCEPT ![c].reader = "kill"]
    /\ UNCHANGED <<bvars, lvars, cvars, pvars, kvars, pass, exchange>>

\* handler.handle(jsonmsg).await: the handler answers through `output`, or has
\* nothing to answer; an answer to a receiver that is gone is lost.
ReaderHandle(c) ==
    /\ c \in DOMAIN conn
    /\ conn[c].task = "joined"
    /\ conn[c].reader = "handling"
    /\ \E reply \in BOOLEAN :
          IF reply /\ conn[c].rx
          THEN conn' = [conn EXCEPT ![c].chan = Append(@, "message"), ![c].reader = "flush"]
          ELSE conn' = [conn EXCEPT ![c].reader = "next"]
    /\ UNCHANGED <<bvars, lvars, cvars, pvars, kvars, pass, exchange>>

\* stdout_tx_shutdown.send("kill".to_string()).await.unwrap(): the send is
\* refused when the receiver is gone, and unwrap panics
ReaderKill(c) ==
    /\ c \in DOMAIN conn
    /\ conn[c].task = "joined"
    /\ conn[c].reader = "kill"
    /\ IF conn[c].rx
       THEN conn' = [conn EXCEPT ![c].chan = Append(@, "kill"), ![c].reader = "kill_flush",
                                 ![c].kill_sent = TRUE]
       ELSE conn' = [conn EXCEPT ![c].reader = "panicked"]
    /\ UNCHANGED <<bvars, lvars, cvars, pvars, kvars, pass, exchange>>

\* send(..).await returns Ok: the message was taken, or the receiver went away
\* after the message was queued
ReaderFlush(c) ==
    /\ c \in DOMAIN conn
    /\ conn[c].task = "joined"
    /\ conn[c].reader \in {"flush", "kill_flush"}
    /\ conn[c].chan = <<>> \/ ~conn[c].rx
    /\ conn' = [conn EXCEPT ![c].reader = IF @ = "flush" THEN "next" ELSE "done"]
    /\ UNCHANGED <<bvars, lvars, cvars, pvars, kvars, pass, exchange>>

\* let message = stdout_rx.next().await.unwrap(); if message == "kill" { break }
WriterRecv(c) ==
    /\ c \in DOMAIN conn
    /\ conn[c].task = "joined"
    /\ conn[c].writer = "recv"
    /\ conn[c].chan # <<>>
    /\ IF Head(conn[c].chan) = "kill"
       THEN conn' = [conn EXCEPT ![c].writer = "done", ![c].rx = FALSE, ![c].chan = <<>>]
       ELSE conn' = [conn EXCEPT ![c].writer = "sending", ![c].chan = Tail(@)]
    /\ UNCHANGED <<bvars, lvars, cvars, pvars, kvars, pass, exchange>>

\* match stdout.send(message).await { Ok(_) => {}, Err(_) => break }; the
\* finished loop drops stdout_rx
WriterSend(c) ==
    /\ c \in DOMAIN conn
    /\ conn[c].task = "joined"
    /\ conn[c].writer = "sending"
    /\ \E ok \in BOOLEAN :
          IF ok
          THEN conn' = [conn EXCEPT ![c].writer = "recv"]
          ELSE conn' = [conn EXCEPT ![c].writer = "done", ![c].rx = FALSE, ![c].chan = <<>>]
    /\ UNCHANGED <<bvars, lvars, cvars, pvars, kvars, pass, exchange>>

\* tokio::join!(..) completes and "Connection cleanup!" is printed, or the
\* reader's panic unwinds through it
Join(c) ==
    /\ c \in DOMAIN conn
    /\ conn[c].task = "joined"
    /\ \/ /\ conn[c].reader = "panicked"
          /\ conn' = [conn EXCEPT ![c].task = "panicked"]
       \/ /\ conn[c].reader = "done"
          /\ conn[c].writer = "done"
          /\ conn' = [conn EXCEPT ![c].task = "returned"]
    /\ UNCHANGED <<bvars, lvars, cvars, pvars, kvars, pass, exchange>>

\* TcpListener::bind: no connection yet
InitConn ==
    /\ IdleBuild
    /\ IdleLint
    /\ IdleComplete
    /\ IdlePublish
    /\ IdleLock
    /\ Quiet

NextConn ==
    \/ Accept
    \/ \E c \in 1..NumConns : ReaderNext(c)
    \/ \E c \in 1..NumConns : ReaderHandle(c)
    \/ \E c \in 1..NumConns : ReaderKill(c)
    \/ \E c \in 1..NumConns : ReaderFlush(c)
    \/ \E c \in 1..NumConns : WriterRecv(c)
    \/ \E c \in 1..NumConns : WriterSend(c)
    \/ \E c \in 1..NumConns : Join(c)

SpecConn == InitConn /\ [][NextConn]_vars

\* ======================================================== properties
Registered(b) == TokenOf(b) \in DOMAIN handles_by_token

ProgressEvents(b) == SelectSeq(client[b], LAMBDA e : e.type \in {"begin", "end"})

\* C1 (as stated): if cancel(token) is called while the build that minted the
\* token is registered and its abortable execution has not produced a result,
\* the build returns Cancelled and its token is no key of the registry once it
\* has returned.
C1_CancelUnsettled ==
    \A b \in Builds :
        (pc[b] = "returned" /\ hit[b] \in {"exact_suspended", "exact_polling"})
            => (result[b] = Cancelled /\ ~Registered(b))

\* C1 (amended): if cancel(token) is called while the build that minted the
\* token is registered and its abortable execution is suspended (registered
\* but not yet polled, or pending at an await), the build returns Cancelled;
\* every build that has returned has its token removed from the registry.
C1_CancelSuspended ==
    \A b \in Builds :
        pc[b] = "returned" =>
            /\ ~Registered(b)
            /\ hit[b] = "exact_suspended" => result[b] = Cancelled

C1_Witness ==
    \E b \in Builds :
        pc[b] = "returned" /\ hit[b] = "exact_suspended" /\ result[b] = Cancelled

\* C2: for a client that declared progress support, every build request that
\* has returned sent exactly one progress-begin followed by exactly one
\* progress-end.
C2_BeginThenEnd ==
    \A b \in Builds :
        (pc[b] = "returned" /\ client_capabilities = "declared")
            => ProgressEvents(b) = <<ProgressBegin(b), ProgressEnd(b)>>

\* C3 (as stated): every unsettled build whose handle is in the registry when
\* the wildcard sweep runs returns Cancelled.
C3_SweepUnsettled ==
    \A b \in Builds :
        (pc[b] = "returned" /\ hit[b] \in {"sweep_suspended", "sweep_polling"})
            => result[b] = Cancelled

\* C3 (amended): the wildcard sweep sets the abort flag of every build whose
\* handle is in the registry at that moment and of no other build; a
\* registered build whose execution is suspended when the sweep runs returns
\* Cancelled; a build that has not registered yet carries no abort flag.
C3_Sweep ==
    /\ [][Cancel(WildcardToken) =>
            \A b \in Builds :
                /\ Registered(b) => aborted'[b]
                /\ ~Registered(b) => aborted'[b] = aborted[b]]_vars
    /\ [](\A b \in Builds :
            /\ (pc[b] = "returned" /\ hit[b] = "sweep_suspended") => result[b] = Cancelled
            /\ pc[b] \in {"idle", "lock_insert"} => ~aborted[b])

C3_Witness ==
    \E b, c \in Builds :
        /\ b # c
        /\ pc[b] = "returned" /\ hit[b] = "sweep_suspended" /\ result[b] = Cancelled
        /\ pc[c] = "returned" /\ hit[c] = "sweep_suspended" /\ result[c] = Cancelled

\* C4: cancel with a token that is no key of the registry and is not the
\* wildcard aborts no build and leaves the registry and every build as it was.
C4_UnknownTokenNoOp ==
    [][\A token \in CancelTokens :
          (token \notin DOMAIN handles_by_token /\ token # WildcardToken /\ miss'
              /\ Cancel(token))
              => UNCHANGED <<pc, epc, polling, aborted, result, proc, client, handles_by_token>>]_vars

C4_Witness ==
    /\ miss
    /\ \E b \in Builds : Registered(b) /\ pc[b] = "abortable" /\ ~aborted[b]

\* C6: once every build request has ended, whatever its outcome, the registry
\* is empty.
C6_RegistryEmptied ==
    (\A b \in Builds : pc[b] \in {"returned", "panicked"}) => DOMAIN handles_by_token = {}

\* C7: a build that was not cancelled returns Success exactly when the process
\* exited with code 0, Error exactly when it exited with another code, Failure
\* exactly when it could not be spawned or an I/O operation on it failed;
\* Cancelled is returned only by an aborted build.
C7_StatusMapping ==
    \A b \in Builds :
        /\ (result[b] \in {Success, Error, Failure}) =>
              /\ result[b] = Success <=> proc[b].st = "zero"
              /\ result[b] = Error <=> proc[b].st = "nonzero"
              /\ result[b] = Failure <=>
                    (proc[b].st \in {"no_path", "spawn_failed", "io_error"} \/ proc[b].err)
        /\ result[b] = Cancelled => aborted[b]

ProviderOf(tool) == IF tool = "chktex" THEN latex ELSE english

\* C5: for each linter, two tool invocations are never less than the
\* linter's interval apart (60 s chktex, 10 s hunspell), so two update calls
\* within the interval invoke the tool at most once; and an update on a local
\* document is throttled only if no more than the interval has passed since
\* the last invocation, so an update made later than that invokes again.
C5_Throttle ==
    \A tool \in Tools :
        /\ \A i, j \in DOMAIN invocations[tool] :
              i < j => invocations[tool][j] - invocations[tool][i] >= Interval(tool)
        /\ (last_update.tool = tool /\ last_update.effect = "throttled") =>
              /\ invocations[tool] # <<>>
              /\ last_update.at - invocations[tool][Len(invocations[tool])] <= Interval(tool)

C5_Witness ==
    /\ Len(invocations["chktex"]) >= 2
    /\ Len(invocations["hunspell"]) >= 2
    /\ last_update.effect = "throttled"

\* C8: the aggregate of a document is the concatenation, in fixed order, of
\* the style linter's and the spell checker's cached results for it (followed
\* by what the other diagnostic producers hold), nothing dropped.
C8_Aggregate ==
    \A uri \in Uris :
        ManagerGet(uri) =
            ProviderGet(latex, uri) \o ProviderGet(english, uri) \o BibtexGet(uri)

\* C9: update with a uri whose scheme is not "file" never invokes the tool
\* and leaves both caches and both timestamps unchanged, at any time.
C9_NonLocalNoOp ==
    /\ [][\A uri \in Uris :
            (uri.scheme # "file" /\ last_update'.uri = uri
                /\ (LatexUpdate(uri) \/ EnglishUpdate(uri)))
                => UNCHANGED <<latex, english, invocations>>]_vars
    /\ [](last_update.tool \in Tools =>
            (last_update.uri.scheme # "file" <=> last_update.effect = "nonlocal"))

C9_Witness ==
    /\ last_update.tool = "chktex"
    /\ last_update.effect = "nonlocal"
    /\ Due(latex, "chktex", last_update.at)
    /\ DOMAIN latex.diagnostics_by_uri # {}

\* C10: update never aborts, whatever the tool prints, and a lint pass that
\* fails stores the empty diagnostic set for the document.
C10_BestEffort ==
    /\ last_update.effect # "panicked"
    /\ last_update.effect = "failed" =>
          ProviderGet(ProviderOf(last_update.tool), last_update.uri) = <<>>

\* C11: every line l:c:d:kind:code:message of the style linter's output that
\* matches the grammar produces the diagnostic on line l-1, from column c-1 to
\* column c-1+d, with that code and message, and severity Information for
\* "Message", Warning for "Warning", Error otherwise: a lint pass of the style
\* linter ends with a diagnostic for each such line, and its cache holds
\* nothing but such diagnostics.
C11_LineToDiagnostic ==
    LET Matching == {ln \in UNION {{run.stdout[i] : i \in DOMAIN run.stdout} :
                                        run \in ChktexRuns} : ln.matches}
        Stated(ln) ==
            [source |-> "chktex", code |-> ln.code, message |-> ln.msg,
             severity |-> IF ln.kind = "Message" THEN "Information"
                          ELSE IF ln.kind = "Warning" THEN "Warning" ELSE "Error",
             range |-> [start |-> [line |-> ln.l - 1, character |-> ln.c - 1],
                        end |-> [line |-> ln.l - 1, character |-> ln.c - 1 + ln.d]]]
    IN /\ last_update.tool = "chktex" => last_update.effect # "panicked"
       /\ \A uri \in DOMAIN latex.diagnostics_by_uri :
             \A k \in DOMAIN latex.diagnostics_by_uri[uri] :
                 latex.diagnostics_by_uri[uri][k] \in {Stated(ln) : ln \in Matching}

\* C12: every line `& word l c: suggestion` of the spell checker's output that
\* matches the grammar produces the diagnostic on line l-1, from column c to
\* column c + length(word), with severity Information and a message naming the
\* first suggestion: a lint pass of the spell checker ends with a diagnostic
\* for each such line, and its cache holds nothing but such diagnostics.
C12_LineToDiagnostic ==
    LET Matching == {ln \in UNION {{run.stdout[i] : i \in DOMAIN run.stdout} :
                                        run \in HunspellRuns} :
                        ln.matches /\ ln.first \in {"&", "#"}}
        Stated(ln) ==
            [source |-> "Spell Checker", code |-> "None",
             message |-> <<"Maybe a spelling error, suggestion: ", ln.suggestion>>,
             severity |-> "Information",
             range |-> [start |-> [line |-> ln.l - 1, character |-> ln.c],
                        end |-> [line |-> ln.l - 1, character |-> ln.c + Len(ln.word)]]]
    IN /\ last_update.tool = "hunspell" => last_update.effect # "panicked"
       /\ \A uri \in DOMAIN english.diagnostics_by_uri :
             \A k \in DOMAIN english.diagnostics_by_uri[uri] :
                 english.diagnostics_by_uri[uri][k] \in {Stated(ln) : ln \in Matching}

\* C13: within one build the client receives the output lines as log messages
\* in the order they were read; for a client that declared progress support
\* the progress-begin precedes the first forwarded line, and the progress-end
\* comes last, after the build's result is determined, on every path that
\* determines a result.
C13_Ordering ==
    \A b \in Builds :
        LET logs == SelectSeq(client[b], LAMBDA e : e.type = "log")
        IN /\ \A i \in DOMAIN logs : logs[i] = LogMessage(b, i)
           /\ (client_capabilities = "declared" /\ logs # <<>>)
                 => Head(client[b]) = ProgressBegin(b)
           /\ \A i \in DOMAIN client[b] :
                 client[b][i] = ProgressEnd(b) => (result[b] # "none" /\ i = Len(client[b]))
           /\ (client_capabilities = "declared" /\ pc[b] \in {"lock_remove", "returned"})
                 => (client[b] # <<>> /\ client[b][Len(client[b])] = ProgressEnd(b))

\* C14: output is streamed: while the next line is being read or the exit
\* status awaited, every line read so far has been forwarded, in order; while
\* a line is being forwarded, all earlier lines have been.
C14_Streamed ==
    \A b \in Builds :
        LET logs == SelectSeq(client[b], LAMBDA e : e.type = "log")
        IN /\ \A i \in DOMAIN logs : logs[i] = LogMessage(b, i)
           /\ epc[b] = "log_message" => Len(logs) = proc[b].out - 1
           /\ epc[b] \in {"start", "next_line", "wait", "done"} => Len(logs) = proc[b].out

C14_Witness ==
    \E b \in Builds :
        /\ epc[b] = "wait"
        /\ proc[b].out = MaxLines
        /\ Len(SelectSeq(client[b], LAMBDA e : e.type = "log")) = MaxLines

\* C15: a build whose compiler could not be spawned, or one of whose output
\* lines could not be read, and that was not cancelled, has status Failure
\* whatever the exit code.
C15_IoFailure ==
    \A b \in Builds :
        ((proc[b].st = "spawn_failed" \/ proc[b].err) /\ result[b] \notin {"none", Cancelled})
            => result[b] = Failure

\* C16: a failed root lookup never aborts the build: every build that was
\* polled ends with a BuildResult and with its token removed from the registry.
C16_LookupNeverAborts ==
    \A b \in Builds :
        /\ pc[b] # "panicked"
        /\ pc[b] = "returned" => (result[b] \in BuildStatus /\ ~Registered(b))

\* C17: has_work_done_progress_support answers true for capabilities that
\* declare window.work_done_progress = Some(true) and false for the default
\* ones: once the compiler of a build is spawned (or has failed to spawn), the
\* client has received the build's progress-begin first if it declared the
\* support, and no progress-begin if it did not.
C17_ProgressSupport ==
    \A b \in Builds :
        proc[b].st \in {"running", "spawn_failed", "zero", "nonzero", "io_error"} =>
            /\ has_work_done_progress_support(client_capabilities)
                  <=> client_capabilities = "declared"
            /\ (client[b] # <<>> /\ Head(client[b]) = ProgressBegin(b))
                  <=> client_capabilities = "declared"

\* C18: the diagnostics published for the open document follow its build
\* log: published while the log reports the error, they hold exactly one
\* build-log diagnostic, "Undefined control sequence."; published after the
\* log was emptied, they hold none.
C18_FollowsLog ==
    LET fromLog == SelectSeq(published.diagnostics, LAMBDA dg : dg = BuildLogDiag)
    IN /\ published.log = "error" => fromLog = <<BuildLogDiag>>
       /\ published.log = "empty" => fromLog = <<>>

\* The concatenation of a sequence of sequences.
RECURSIVE Flat(_)
Flat(ss) == IF ss = <<>> THEN <<>> ELSE Head(ss) \o Flat(Tail(ss))

ItemLabels == [i \in DOMAIN items |-> items[i].label]

\* The names of the definition labels of the request's LaTeX documents, in
\* document order then label order.
DefinitionNames ==
    Flat([k \in DOMAIN request.related_documents |->
            LET doc == request.related_documents[k]
            IN IF doc.tree # "Latex" THEN <<>>
               ELSE Flat([j \in DOMAIN doc.labels |->
                            IF doc.labels[j].kind = "Definition"
                            THEN doc.labels[j].names ELSE <<>>])])

\* C19 (as stated): completion in the argument of any reference command
\* returns one item per name of every definition label of the related
\* documents, in document order then label order.
C19_EveryDefinition ==
    (request.served /\ request.command \in {"\\ref", "\\eqref"})
        => ItemLabels = DefinitionNames

\* C19 (amended): completion in the argument of a reference command whose
\* source is Everything returns one item per name of every definition label of
\* the related documents, in document order then label order; for any
\* reference command every item is the name of a definition label, each name
\* offered at most as often as definition labels carry it, and no item comes
\* from a reference-kind label.
C19_Definitions ==
    request.served =>
        /\ request.command = "\\ref" => ItemLabels = DefinitionNames
        /\ request.command = "\\eqref" =>
              \A name \in {"foo", "bar", "baz", "it", "a", "b"} :
                  Len(SelectSeq(ItemLabels, LAMBDA x : x = name))
                      <= Len(SelectSeq(DefinitionNames, LAMBDA x : x = name))
        /\ \A i \in DOMAIN items :
              items[i] = FactoryLabel(items[i].label, ContextRange)

C19_Witness ==
    /\ request.served
    /\ request.command = "\\ref"
    /\ request.related_documents = <<Bib, Baz>>
    /\ ItemLabels = <<"foo", "bar">>

\* C20: for a reference command whose source is Math the items are the names
\* of exactly those definition labels whose start lies strictly inside the
\* range of a math environment of the label's own document; for a source of
\* Everything every definition label is offered.
C20_MathSource ==
    LET StrictlyInside(pos, range) ==
            /\ range.start.line < pos.line
                  \/ (range.start.line = pos.line /\ range.start.character < pos.character)
            /\ pos.line < range.end.line
                  \/ (pos.line = range.end.line /\ pos.character < range.end.character)
        InMath(doc, label) ==
            \E e \in DOMAIN doc.environments :
                /\ doc.environments[e].is_math
                /\ StrictlyInside(label.start, doc.environments[e].range)
        MathNames ==
            Flat([k \in DOMAIN request.related_documents |->
                    LET doc == request.related_documents[k]
                    IN IF doc.tree # "Latex" THEN <<>>
                       ELSE Flat([j \in DOMAIN doc.labels |->
                                    IF doc.labels[j].kind = "Definition"
                                       /\ InMath(doc, doc.labels[j])
                                    THEN doc.labels[j].names ELSE <<>>])])
    IN request.served =>
          /\ request.command = "\\eqref" => ItemLabels = MathNames
          /\ \A cmd \in LabelCommands :
                (cmd.name = request.command /\ cmd.kind = "Reference"
                    /\ cmd.source = "Everything") => ItemLabels = DefinitionNames

C20_Witness ==
    /\ request.served
    /\ request.command = "\\eqref"
    /\ request.related_documents = <<Align, Itemize>>
    /\ ItemLabels = <<"foo">>

\* C21: get(document) of a linter answers the diagnostics inserted by the most
\* recent update that inserted for the document's uri, and nothing if there
\* was none: an update that inserts is answered by get at once, any step that
\* is no inserting update of that linter for that uri leaves get's answer for
\* it as it was, and an absent entry is answered by the empty set.
C21_GetReturnsStored ==
    /\ [](\A tool \in Tools :
            /\ (last_update.tool = tool /\ last_update.effect \in {"stored", "failed"})
                  => ProviderGet(ProviderOf(tool), last_update.uri) = last_update.inserted
            /\ \A uri \in Uris :
                  /\ uri \notin DOMAIN ProviderOf(tool).diagnostics_by_uri
                        => ProviderGet(ProviderOf(tool), uri) = <<>>
                  /\ invocations[tool] = <<>>
                        => ProviderGet(ProviderOf(tool), uri) = <<>>)
    /\ [][\A uri \in Uris :
            /\ ProviderGet(latex, uri)' # ProviderGet(latex, uri)
                  => /\ last_update'.tool = "chktex" /\ last_update'.uri = uri
                     /\ last_update'.effect \in {"stored", "failed"}
            /\ ProviderGet(english, uri)' # ProviderGet(english, uri)
                  => /\ last_update'.tool = "hunspell" /\ last_update'.uri = uri
                     /\ last_update'.effect \in {"stored", "failed"}]_vars

C21_Witness ==
    /\ last_update.tool = "chktex"
    /\ last_update.effect = "throttled"
    /\ last_update.uri = FileA
    /\ ProviderGet(latex, FileA) # <<>>
    /\ FileB \in DOMAIN latex.diagnostics_by_uri
    /\ Len(invocations["chktex"]) >= 2

\* C24: update on a local document invokes the tool exactly when
\* now - last_invocation_time >= interval, equality included: a throttled
\* update comes strictly less than the interval after the last invocation, two
\* invocations are at least the interval apart, and an update that invokes has
\* set the timestamp to now whether or not the invocation succeeded.
C24_Boundary ==
    \A tool \in Tools :
        /\ \A i, j \in DOMAIN invocations[tool] :
              i < j => invocations[tool][j] - invocations[tool][i] >= Interval(tool)
        /\ last_update.tool = tool =>
              /\ last_update.effect = "throttled" =>
                    /\ invocations[tool] # <<>>
                    /\ last_update.at - invocations[tool][Len(invocations[tool])]
                          < Interval(tool)
              /\ last_update.effect \in {"stored", "failed", "panicked"} =>
                    ProviderOf(tool).last_lint_time = last_update.at

\* C25: a throttled update leaves the document's cache entry, every other
\* entry and the timestamp of both linters unchanged, so get answers after it
\* what it answered before.
C25_ThrottledNoChange ==
    [][\A uri \in Uris :
          (last_update'.effect = "throttled" /\ last_update'.uri = uri
              /\ (LatexUpdate(uri) \/ EnglishUpdate(uri)))
              => /\ UNCHANGED <<latex, english, invocations>>
                 /\ \A u \in Uris :
                       /\ ProviderGet(latex, u)' = ProviderGet(latex, u)
                       /\ ProviderGet(english, u)' = ProviderGet(english, u)]_vars

C25_Witness ==
    /\ last_update.tool = "hunspell"
    /\ last_update.effect = "throttled"
    /\ last_update.uri = FileB
    /\ ProviderGet(english, FileB) # <<>>
    /\ FileA \in DOMAIN english.diagnostics_by_uri

\* C26: the throttle of one linter is global over documents: an update for any
\* local document made less than the interval after the linter's last
\* invocation, whichever document that was for, invokes nothing and leaves the
\* linter's cache as it was (the document's entry absent if it was never
\* linted), and a cache never holds more entries than the linter made
\* invocations.
C26_GlobalThrottle ==
    /\ [][\A uri \in {FileA, FileB} :
            /\ (invocations["chktex"] # <<>> /\ last_update'.uri = uri
                   /\ now - invocations["chktex"][Len(invocations["chktex"])] < LatexInterval
                   /\ LatexUpdate(uri))
                  => (last_update'.effect = "throttled" /\ UNCHANGED <<latex, invocations>>)
            /\ (invocations["hunspell"] # <<>> /\ last_update'.uri = uri
                   /\ now - invocations["hunspell"][Len(invocations["hunspell"])] < EnglishInterval
                   /\ EnglishUpdate(uri))
                  => (last_update'.effect = "throttled" /\ UNCHANGED <<english, invocations>>)]_vars
    /\ [](\A tool \in Tools :
            Cardinality(DOMAIN ProviderOf(tool).diagnostics_by_uri) <= Len(invocations[tool]))

C26_Witness ==
    /\ last_update.tool = "hunspell"
    /\ last_update.effect = "throttled"
    /\ last_update.uri = FileB
    /\ FileB \notin DOMAIN english.diagnostics_by_uri
    /\ FileA \in DOMAIN english.diagnostics_by_uri

\* C28: the two linters are independent: an update of the style linter leaves
\* the spell checker's cache, timestamp and invocations as they were, and the
\* reverse; an update is throttled only within its own linter's interval
\* (60 s, 10 s) of that linter's own timestamp.
C28_Independent ==
    /\ [][\A uri \in Uris :
            /\ (last_update'.uri = uri /\ last_update'.tool = "chktex" /\ LatexUpdate(uri))
                  => (english' = english /\ invocations'["hunspell"] = invocations["hunspell"])
            /\ (last_update'.uri = uri /\ last_update'.tool = "hunspell" /\ EnglishUpdate(uri))
                  => (latex' = latex /\ invocations'["chktex"] = invocations["chktex"])]_vars
    /\ [](/\ (last_update.tool = "chktex" /\ last_update.effect = "throttled")
               => last_update.at <= latex.last_lint_time + 60
          /\ (last_update.tool = "hunspell" /\ last_update.effect = "throttled")
               => last_update.at <= english.last_lint_time + 10
          /\ (last_update.tool = "chktex" /\ last_update.uri.scheme = "file"
                /\ last_update.effect # "throttled") => latex.last_lint_time = last_update.at
          /\ (last_update.tool = "hunspell" /\ last_update.uri.scheme = "file"
                /\ last_update.effect # "throttled") => english.last_lint_time = last_update.at)

C28_Witness ==
    /\ last_update.tool = "chktex"
    /\ last_update.effect = "stored"
    /\ english.last_lint_time = last_update.at
    /\ DOMAIN english.diagnostics_by_uri # {}

\* C22: cancel with a token that matches a registered handle sets the abort
\* flag of that build and of no other, whatever else is registered; a build
\* whose flag was never set returns the status of its own compiler run.
C22_ExactOnly ==
    /\ [][\A token \in CancelTokens :
            (token \in DOMAIN handles_by_token /\ UNCHANGED pc /\ Cancel(token))
                => \A b \in Builds :
                      aborted'[b] = (aborted[b] \/ b = handles_by_token[token])]_vars
    /\ [](\A b \in Builds :
            (pc[b] = "returned" /\ ~aborted[b]) =>
                result[b] = CASE proc[b].st = "zero" -> Success
                              [] proc[b].st = "nonzero" -> Error
                              [] OTHER -> Failure)

C22_Witness ==
    \E b, c \in Builds :
        /\ b # c
        /\ hit[b] = "exact_suspended" /\ pc[b] = "returned" /\ result[b] = Cancelled
        /\ pc[c] = "returned" /\ ~aborted[c] /\ result[c] = Success /\ proc[c].out >= 1

\* C23: a token is a key of the registry exactly while its build has started
\* executing and has not ended.
C23_RegisteredIffRunning ==
    \A b \in Builds :
        Registered(b) <=> pc[b] \in {"abortable", "progress_end", "lock_remove"}

C27_NoStarvation ==
    <>(/\ last_update.uri = FileB
       /\ last_update.effect \in {"stored", "failed", "panicked"})

\* C30: registry access is mutually exclusive and no critical section spans
\* a process invocation or a client notification: at most one task holds the
\* guard, a build holds it only between lock and insert and between lock and
\* remove, never while its execution runs or its progress-end is sent, cancel
\* holds it only for the lookup and the abort signals, and whoever holds it
\* gives it back with its next step, so no waiter waits for a build to finish.
C30_MinimalSections ==
    /\ [](/\ \A b \in Builds :
               /\ lock = HeldByBuild(b) <=> pc[b] \in {"insert_held", "remove_held"}
               /\ pc[b] \in {"abortable", "progress_end", "panicked"} => lock # HeldByBuild(b)
          /\ lock = HeldByCancel <=> cancelling # NoToken
          /\ Cardinality({b \in Builds : pc[b] \in {"insert_held", "remove_held"}})
                + (IF cancelling # NoToken THEN 1 ELSE 0) <= 1)
    /\ [][lock # Free =>
            /\ lock' \in {lock, Free}
            /\ \A b \in Builds :
                  lock = HeldByBuild(b) =>
                      /\ proc'[b] = proc[b] /\ client'[b] = client[b]
                      /\ pc'[b] # pc[b] => lock' = Free
            /\ (lock = HeldByCancel /\ cancelling' # cancelling)
                  => (lock' = Free /\ UNCHANGED <<pc, proc, client, handles_by_token>>)]_vars

C30_Witness ==
    /\ lock = HeldByCancel
    /\ \E b, c \in Builds :
          /\ pc[b] = "abortable" /\ proc[b].st = "running"
          /\ pc[c] = "lock_remove"

Logs(b) == SelectSeq(client[b], LAMBDA e : e.type = "log")

\* C31: cancelling a build does not kill the compiler's process: the abort
\* only sets the flag, the build resolves to Cancelled at a suspension point
\* (before a poll or when the execution is pending at an await) without
\* touching the process, and a cancelled build's process is left as it was,
\* still running if it had been spawned, also after the request has returned.
C31_ProcessNotKilled ==
    /\ [][\A b \in Builds :
            /\ (aborted'[b] /\ ~aborted[b]) => UNCHANGED <<proc, pc, result>>
            /\ (result'[b] = Cancelled /\ result[b] = "none") =>
                  /\ aborted[b]
                  /\ ~polling[b] \/ epc[b] \in {"next_line", "log_message", "wait"}
                  /\ proc'[b] = proc[b]]_vars
    /\ [](\A b \in Builds :
            result[b] = Cancelled =>
                (proc[b].st \in {"none", "running"} /\ (epc[b] # "start" => proc[b].st = "running")))

C31_Witness ==
    \E b \in Builds :
        /\ pc[b] = "returned"
        /\ result[b] = Cancelled
        /\ ~Registered(b)
        /\ proc[b].st = "running"

\* C36: after a build's result is Cancelled, and after its progress-end when
\* one is sent, the client receives no further output line of that build's
\* compiler process, although the process may go on printing.
C36_NoLogAfterCancelled ==
    [][\A b \in Builds :
          (result[b] = Cancelled \/ (client[b] # <<>> /\ client[b][Len(client[b])] = ProgressEnd(b)))
              => Logs(b)' = Logs(b)]_vars

C36_Witness ==
    \E b \in Builds :
        /\ pc[b] = "returned"
        /\ result[b] = Cancelled
        /\ epc[b] = "log_message"
        /\ proc[b].out = 2
        /\ Logs(b) = <<LogMessage(b, 1)>>

\* C37: a build whose token is cancelled after its handle was registered and
\* before its execution was first polled never enters a poll: it resolves to
\* Cancelled, spawns no compiler process and forwards no log message.
C37_CancelledBeforeStart ==
    /\ [][\A b \in Builds :
            (pc[b] = "abortable" /\ aborted[b] /\ ~polling[b]) => ~polling'[b]]_vars
    /\ [](\A b \in Builds :
            (epc[b] = "start" /\ hit[b] \in {"exact_suspended", "sweep_suspended"}) =>
                /\ proc[b] = NoProc
                /\ Logs(b) = <<>>
                /\ result[b] \in {"none", Cancelled}
                /\ pc[b] \in {"progress_end", "lock_remove", "returned"} => result[b] = Cancelled)

C37_Witness ==
    \E b \in Builds :
        /\ pc[b] = "returned"
        /\ epc[b] = "start"
        /\ hit[b] = "exact_suspended"
        /\ result[b] = Cancelled
        /\ proc[b] = NoProc
        /\ client[b] = <<>>

\* C38: a cancel that reaches a build after its execution produced a result
\* and before its token is removed changes nothing: a result once determined
\* never changes, the build returns the Success, Error or Failure it had, and
\* its token leaves the registry once, at the remove, and never comes back.
C38_LateCancelIgnored ==
    /\ [][\A b \in Builds :
            /\ result[b] # "none" => result'[b] = result[b]
            /\ (Registered(b) /\ ~Registered(b)') => (pc[b] = "lock_remove" /\ pc'[b] = "returned")
            /\ pc[b] = "returned" => ~Registered(b)']_vars
    /\ [](\A b \in Builds :
            (aborted[b] /\ hit[b] = "none" /\ result[b] # "none") =>
                /\ result[b] \in {Success, Error, Failure}
                /\ pc[b] \in {"progress_end", "lock_remove", "returned"}
                /\ pc[b] = "returned" => ~Registered(b))

C38_Witness ==
    \E b \in Builds :
        /\ pc[b] = "returned"
        /\ aborted[b]
        /\ hit[b] = "none"
        /\ result[b] = Success
        /\ ~Registered(b)

\* C33: the documents with a cache entry in a linter only grow in number: no
\* step deletes an entry, an entry appears or changes only by a non-throttled
\* update of that linter for that document, and a document has an entry if and
\* only if a non-throttled update for it has occurred.
C33_EntriesOnlyGrow ==
    /\ [][\A tool \in Tools : \A uri \in Uris :
            LET before == ProviderOf(tool).diagnostics_by_uri
                after == ProviderOf(tool).diagnostics_by_uri'
            IN /\ uri \in DOMAIN before => uri \in DOMAIN after
               /\ (uri \in DOMAIN after /\ (uri \notin DOMAIN before \/ after[uri] # before[uri]))
                     => /\ last_update'.tool = tool /\ last_update'.uri = uri
                        /\ last_update'.effect \in {"stored", "failed", "panicked"}]_vars
    /\ [](\A tool \in Tools :
            /\ invocations[tool] = <<>> => DOMAIN ProviderOf(tool).diagnostics_by_uri = {}
            /\ (last_update.tool = tool /\ last_update.effect \in {"stored", "failed", "panicked"})
                  => last_update.uri \in DOMAIN ProviderOf(tool).diagnostics_by_uri)

\* A line the tool's grammar does not match, or that the spell checker passes
\* over for its first character.
Malformed(tool, ln) ==
    IF tool = "chktex" THEN ~ln.matches
    ELSE ln.first \notin {"&", "#"} \/ ~ln.matches

\* C32: an output line that does not match the tool's grammar is skipped in
\* silence: the step over it adds no diagnostic, raises no error and leaves
\* the remaining lines to be parsed, so a pass that returns has visited every
\* line and holds one diagnostic per well-formed line; for the spell checker
\* this covers lines starting with `*` or with any character but `&` and `#`.
C32_MalformedSkipped ==
    /\ [][(pass.st = "looping" /\ pass.stdout # <<>>
             /\ Malformed(pass.tool, Head(pass.stdout)))
            => pass' = [pass EXCEPT !.stdout = Tail(@)]]_vars
    /\ [](pass.st = "returned" =>
            /\ pass.stdout = <<>>
            /\ Len(pass.diagnostics)
                  = Len(SelectSeq(pass.out, LAMBDA ln : ~Malformed(pass.tool, ln))))

C32_Witness ==
    /\ pass.st = "returned"
    /\ pass.tool = "hunspell"
    /\ pass.out = <<HunspellOther("*"), HunspellLine("&", "hte", 1, 3, "the")>>
    /\ Len(pass.diagnostics) = 1

\* C40: for every output line that matches the grammar the conversion from
\* 1-based to 0-based stays within u64: no pass aborts on a reported line or
\* column of 0, and no diagnostic carries a line or column wrapped around to
\* the largest u64.
C40_NoUnderflow ==
    /\ pass.st # "panicked"
    /\ \A k \in DOMAIN pass.diagnostics :
          /\ pass.diagnostics[k].range.start.line # U64Mod - 1
          /\ pass.diagnostics[k].range.start.character # U64Mod - 1

\* C34: the linter's blocking exchange with its tool is kept off the
\* cooperative scheduler: while lint is writing to or reading from the tool,
\* however long that lasts, an unrelated task that wants to run is running or
\* finds a free thread of the runtime.
C34_Isolated ==
    exchange.st \in {"writing", "reading"} =>
        \/ exchange.polls = MaxPolls
        \/ "build" \in exchange.on
        \/ Cardinality(exchange.on) < exchange.workers

\* C35: the exchange cannot deadlock on full pipes: while lint is writing the
\* text or reading the output, lint or the tool can take its next step,
\* whatever the size of the text and the amount of output.
C35_NoPipeDeadlock ==
    exchange.st \in {"writing", "reading"} =>
        \/ exchange.st = "writing" /\ (exchange.text = 0 \/ exchange.stdin < PipeCap)
        \/ exchange.st = "reading" /\ (exchange.stdout > 0 \/ exchange.tool = "exited")
        \/ exchange.tool = "running" /\ exchange.owed > 0 /\ exchange.stdout < PipeCap
        \/ exchange.tool = "running" /\ exchange.owed = 0
              /\ (exchange.stdin > 0 \/ ~exchange.stdin_open)

\* C39: for every accepted connection, once the client's input ends or yields
\* an error the reader sends "kill", the writer stops and accept_connection
\* reaches its cleanup and returns, also when the writer stopped first on a
\* failed write: neither loop aborts on a channel send or receive, a reader
\* that is through has sent "kill", and a connection that has returned has
\* both loops finished.
C39_ConnectionShutsDown ==
    \A c \in DOMAIN conn :
        /\ conn[c].reader # "panicked"
        /\ conn[c].task # "panicked"
        /\ conn[c].reader = "done" => conn[c].kill_sent
        /\ conn[c].task = "returned" => (conn[c].reader = "done" /\ conn[c].writer = "done")

====
